---------------------------- MODULE Spec2Model ----------------------------
(***************************************************************************)
(* hashcalcmt: the concurrent walk -> hash -> collect pipeline.            *)
(*                                                                         *)
(* One producer goroutine walks the tree and sends matching paths on the   *)
(* unbuffered channel jobs and traversal errors on the unbuffered channel  *)
(* results; NumWorkers workers range over jobs, hash each file and send a  *)
(* Result; a closer goroutine waits on the WaitGroup and closes results;   *)
(* the main goroutine ranges over results in processResults.               *)
(*                                                                         *)
(* Two implementations of the pipeline are in the repository: main.go      *)
(* (worker/hashFile of package main) and the pipeline package (Run/worker/ *)
(* hashFile).  The variable impl says which one runs.                      *)
(*                                                                         *)
(* Specifications:                                                         *)
(*   Spec      the runs with the default output options, one step for each *)
(*             hashFile                                                    *)
(*   FairSpec  Spec on fewer inputs, with fair scheduling of the steps     *)
(*   OptSpec   the runs with -rename, with and without -out-file           *)
(*   AnySpec   the runs with any worker count, 0 and negative ones too     *)
(*   FineSpec  the runs with hashFile in two steps (open; copy and close)  *)
(***************************************************************************)
EXTENDS Integers, Sequences, FiniteSets, TLC

(***************************************************************************)
(* Bounds of the model.                                                    *)
(***************************************************************************)
MaxEntries == 3
MaxWorkers == 2

(***************************************************************************)
(* Hash type identifiers (main.go 29-35, hasher 17-23).                    *)
(***************************************************************************)
HashMD5 == "MD5"
HashSHA1 == "SHA1"
HashSHA256 == "SHA256"
HashXXHash == "XXHASH64"
HashBlake3 == "BLAKE3"

\* The -hash values a run is started with: the default, and one the switch
\* of getHasher does not know.
HashTypeInputs == {HashMD5, "CRC32"}

\* The -file-pattern values: the default, an extension glob, a malformed glob.
PatternInputs == {"*", "*.jpg", "["}

Impls == {"main", "pipeline"}

NoErr == "nil"
NoHash == <<>>

(***************************************************************************)
(* getHasher: the hash function for a hash type, or an error.              *)
(* A hash function is named by the algorithm and by how the sum is         *)
(* rendered (hex.EncodeToString of the bytes, or %x of the 64-bit sum).    *)
(***************************************************************************)
getHasher(hashType) ==
    CASE hashType = HashMD5    -> [fn |-> <<"hex", "md5">>, err |-> NoErr]
      [] hashType = HashSHA1   -> [fn |-> <<"hex", "sha1">>, err |-> NoErr]
      [] hashType = HashSHA256 -> [fn |-> <<"hex", "sha256">>, err |-> NoErr]
      [] hashType = HashXXHash -> [fn |-> <<"%x", "xxhash64">>, err |-> NoErr]
      [] hashType = HashBlake3 -> [fn |-> <<"hex", "blake3">>, err |-> NoErr]
      [] OTHER                 -> [fn |-> <<>>, err |-> "unsupported hash type"]

\* The digest text of a content under a hash function: a function of the
\* algorithm, the rendering and the bytes, never empty.
Digest(fn, content) == <<fn[1], fn[2], content>>

\* newHashStreamFunc / hashXXHashStream: io.Copy of the reader into the hash;
\* a read failure gives ("", err), else the rendered sum.
hasher(fn, file) ==
    IF file.fault = "read"
    THEN [hash |-> NoHash, err |-> "read"]
    ELSE [hash |-> Digest(fn, file.content), err |-> NoErr]

(***************************************************************************)
(* The file tree.  A tree is the sequence of its entries in the lexical    *)
(* pre-order filepath.Walk visits them in; entry 1 is the root.            *)
(*   kind    "dir"      a directory whose names can be read                *)
(*           "dirErr"   a directory whose names cannot be read             *)
(*           "lstatErr" a name whose lstat fails                           *)
(*           "file"     a non-directory                                    *)
(*   fault   for a file: "none", or the call that fails on it              *)
(*           ("open", "read", "close")                                     *)
(*   name    for a file: "" for a name of its own, or the content whose    *)
(*           MD5 digest the file is named after                            *)
(***************************************************************************)
Kind(k, e, c, f) == [kind |-> k, ext |-> e, content |-> c, fault |-> f, name |-> ""]

\* The kind k of file, named after the digest of the content c.
Named(k, c) == [k EXCEPT !.name = c]

EntryKinds ==
    { Kind("dir", "", "", "none"),
      Kind("dirErr", "", "", "none"),
      Kind("lstatErr", "", "", "none"),
      Kind("file", ".jpg", "hi", "none"),
      Kind("file", ".jpg", "hi", "open"),
      Kind("file", ".jpg", "yo", "close"),
      Kind("file", ".png", "hi", "read") }

Entry(k, d) == [kind |-> k.kind, ext |-> k.ext, content |-> k.content,
                fault |-> k.fault, name |-> k.name, depth |-> d]

IsDirKind(e) == e.kind \in {"dir", "dirErr"}

\* The entries that may follow the pre-order t: a child of the last entry if
\* that is a directory, or a later sibling of it or of one of its ancestors.
Extensions(t, kinds) ==
    LET last == t[Len(t)]
        maxd == IF IsDirKind(last) THEN last.depth + 1 ELSE last.depth
    IN  { Append(t, Entry(k, d)) : k \in kinds, d \in 1..maxd }

RECURSIVE TreesOfLen(_, _)
TreesOfLen(n, kinds) ==
    IF n = 1
    THEN { <<Entry(k, 0)>> : k \in kinds }
    ELSE UNION { Extensions(t, kinds) : t \in TreesOfLen(n - 1, kinds) }

\* The trees of at most MaxEntries entries.
Trees(kinds) == UNION { TreesOfLen(n, kinds) : n \in 1..MaxEntries }

\* i lies in the subtree of the entry j.
Under(t, j, i) == j < i /\ \A k \in (j + 1)..i : t[k].depth > t[j].depth

\* The directory holding entry i: the nearest earlier entry one level up
\* (0 stands for the directory the root path is relative to).
ParentOf(t, i) ==
    IF t[i].depth = 0 THEN 0
    ELSE CHOOSE j \in 1..(i - 1) :
            /\ t[j].depth = t[i].depth - 1
            /\ \A k \in (j + 1)..(i - 1) : t[k].depth >= t[i].depth

\* A path is <<directory, stem, extension>>; filepath.Dir and filepath.Ext
\* take it apart and filepath.Join(dir, stem + ext) puts one together.
Dir(path) == path[1]
Ext(path) == path[3]
Join(dir, stem, ext) == <<dir, stem, ext>>

\* The name of entry i without its extension: its own, or a digest.
Stem(t, i) ==
    IF t[i].name = "" THEN <<"n", i>>
    ELSE Digest(getHasher(HashMD5).fn, t[i].name)

\* The path of entry i: its directory, its stem, its extension.
PathOf(t, i) == Join(ParentOf(t, i), Stem(t, i), t[i].ext)

(***************************************************************************)
(* filepath.Walk.  Every name is visited once, in lexical pre-order; the   *)
(* names below a directory that cannot be read are not visited.            *)
(***************************************************************************)
Visited(t, i) == ~ \E j \in 1..(i - 1) : t[j].kind = "dirErr" /\ Under(t, j, i)

NextVisit(t, p) ==
    IF \E i \in p..Len(t) : Visited(t, i)
    THEN CHOOSE i \in p..Len(t) : Visited(t, i) /\ \A k \in p..(i - 1) : ~Visited(t, k)
    ELSE Len(t) + 1

\* Match with a malformed pattern taken as a match.
Match_MalformedMatches(pattern, e) ==
    CASE pattern = "*"     -> TRUE
      [] pattern = "*.jpg" -> e.ext = ".jpg"
      [] OTHER             -> TRUE

\* filepath.Match(pattern, name): the error of a malformed pattern is dropped
\* by the caller and match is false.
Match(pattern, e) ==
    CASE pattern = "*"     -> TRUE
      [] pattern = "*.jpg" -> e.ext = ".jpg"
      [] OTHER             -> FALSE

\* The error filepath.Walk hands to the callback for an entry.
WalkErr(e) ==
    CASE e.kind = "lstatErr" -> "lstat"
      [] e.kind = "dirErr"   -> "readdir"
      [] OTHER               -> NoErr

Result(path, hash, err) == [FilePath |-> path, Hash |-> hash, Error |-> err]

\* The sender of a Result: a worker 1..NumWorkers, or the walker goroutine.
Producer == 0

NoPath == <<>>
NoResult == Result(NoPath, NoHash, "none")

(***************************************************************************)
(* State.                                                                  *)
(***************************************************************************)
VARIABLES
    cfg,            \* Config, as parseFlags returns it
    impl,           \* which worker/hashFile runs: "main" or "pipeline"
    tree,           \* the entries below cfg.Path, as the walk meets them
    fs,             \* the files that exist: path -> file
    mainpc,         \* main goroutine: "start", "collect", "report", "exited"
    exitCode,       \* process exit status, -1 while running
    ppc,            \* walker goroutine: "none", "walk", "sendErr", "sendJob", "close", "done"
    walkPos,        \* the entry the walk is at
    wpc,            \* worker w: "none", "recv", "hash", "copy", "send", "done"
    wjob,           \* worker w: filePath of the loop
    wres,           \* worker w: the Result it is sending
    wg,             \* sync.WaitGroup counter
    cpc,            \* closer goroutine: "none", "wait", "done"
    jobsClosed,     \* close(jobs) has run
    resultsClosed,  \* close(results) has run
    output,         \* processResults: path -> hash
    errs,           \* processResults: the errors, in order
    stdout,         \* lines printed to standard output
    stderr,         \* lines printed to standard error
    outFile,        \* << >>, or <<the set of lines written to cfg.OutFile>>
    handles,        \* the files that are open: [by |-> worker, path, file]
    jobsSent,       \* history: the sends on jobs, in order, with their receiver
    received        \* history: the Results received from results, with their sender

vars == <<cfg, impl, tree, fs, handles, mainpc, exitCode, ppc, walkPos, wpc, wjob, wres, wg, cpc, jobsClosed, resultsClosed, output, errs, stdout, stderr,
          outFile, jobsSent, received>>

Workers == 1..cfg.NumWorkers

Path(i) == PathOf(tree, i)

\* The configurations of a run with the default output options (no -rename,
\* -display on, no -out-file).
Config ==
    [FilePattern : PatternInputs, HashType : HashTypeInputs, OutFile : {""},
     Rename : {FALSE}, Display : {TRUE}, Version : BOOLEAN, NumWorkers : 1..MaxWorkers]

InitWith(configs, trees) ==
    /\ cfg \in configs
    /\ impl \in Impls
    /\ tree \in trees
    /\ fs = [p \in { Path(i) : i \in { k \in 1..Len(tree) : tree[k].kind = "file" } } |->
                LET i == CHOOSE k \in 1..Len(tree) : Path(k) = p IN tree[i]]
    /\ mainpc = "start"
    /\ exitCode = -1
    /\ ppc = "none"
    /\ walkPos = 1
    /\ wpc = [w \in Workers |-> "none"]
    /\ wjob = [w \in Workers |-> NoPath]
    /\ wres = [w \in Workers |-> NoResult]
    /\ wg = 0
    /\ cpc = "none"
    /\ jobsClosed = FALSE
    /\ resultsClosed = FALSE
    /\ output = [p \in {} |-> NoHash]
    /\ errs = << >>
    /\ stdout = << >>
    /\ stderr = << >>
    /\ outFile = << >>
    /\ handles = {}
    /\ jobsSent = << >>
    /\ received = << >>

Init == InitWith(Config, Trees(EntryKinds))

\* The runs liveness is checked for: the default pattern, and the entries
\* that are directories, traversal errors, files that hash and files that
\* cannot be opened.
FairConfig == { c \in Config : c.FilePattern = "*" }

FairKinds == { k \in EntryKinds : k.fault \in {"none", "open"} }

FairInit == InitWith(FairConfig, Trees(FairKinds))

\* The runs hashFile is followed step by step in: the default pattern, and
\* the entries that are directories, names whose lstat fails, and files with
\* each of the faults.
FineKinds == { k \in EntryKinds : k.kind # "dirErr" }

FineInit == InitWith(FairConfig, Trees(FineKinds))

\* The runs with -rename, with and without -out-file: the default pattern, and
\* the entries that are directories, names whose lstat fails, files that hash,
\* and files named after the digest of another file's content.  No two
\* entries of a tree have the same path.
OptConfig ==
    [FilePattern : {"*"}, HashType : HashTypeInputs, OutFile : {"", "out.txt"},
     Rename : {TRUE}, Display : {TRUE}, Version : BOOLEAN, NumWorkers : 1..MaxWorkers]

OptKinds ==
    { Kind("dir", "", "", "none"),
      Kind("lstatErr", "", "", "none"),
      Kind("file", ".jpg", "hi", "none"),
      Named(Kind("file", ".jpg", "yo", "none"), "hi") }

OptTrees ==
    { t \in Trees(OptKinds) :
         \A i, j \in 1..Len(t) : PathOf(t, i) = PathOf(t, j) => i = j }

OptInit == InitWith(OptConfig, OptTrees)

\* The runs with any worker count -workers takes: parseFlags accepts every
\* integer, and a count of 0 or less starts no worker.
AnyConfig ==
    [FilePattern : {"*"}, HashType : HashTypeInputs, OutFile : {""},
     Rename : {FALSE}, Display : {TRUE}, Version : BOOLEAN,
     NumWorkers : (-1)..MaxWorkers]

AnyInit == InitWith(AnyConfig, Trees(FairKinds))

HasherFn == getHasher(cfg.HashType).fn

Running == mainpc # "exited"

(***************************************************************************)
(* main, before the pipeline: -version, then getHasher.                    *)
(***************************************************************************)
MainVersion ==
    /\ mainpc = "start"
    /\ cfg.Version
    /\ stdout' = Append(stdout, <<"version">>)
    /\ mainpc' = "exited"
    /\ exitCode' = 0
    /\ UNCHANGED <<cfg, impl, tree, handles, fs, ppc, walkPos, wpc, wjob, wres, wg, cpc,
                   jobsClosed, resultsClosed, output, errs, stderr, outFile, jobsSent,
                   received>>

MainBadHash ==
    /\ mainpc = "start"
    /\ ~cfg.Version
    /\ getHasher(cfg.HashType).err # NoErr
    /\ stderr' = Append(stderr, getHasher(cfg.HashType).err)
    /\ mainpc' = "exited"
    /\ exitCode' = 1
    /\ UNCHANGED <<cfg, impl, tree, handles, fs, ppc, walkPos, wpc, wjob, wres, wg, cpc,
                   jobsClosed, resultsClosed, output, errs, stdout, outFile, jobsSent,
                   received>>

\* StartPipeline without the check of getHasher's error.
StartPipeline_NoCheck ==
    /\ mainpc = "start"
    /\ ~cfg.Version
    /\ wpc' = [w \in Workers |-> "recv"]
    /\ wg' = Cardinality(Workers)
    /\ ppc' = "walk"
    /\ cpc' = "wait"
    /\ mainpc' = "collect"
    /\ UNCHANGED <<cfg, impl, tree, handles, fs, exitCode, walkPos, wjob, wres,
                   jobsClosed, resultsClosed, output, errs, stdout, stderr, outFile,
                   jobsSent, received>>

\* StartPipeline without the wg.Add(1) for each worker.
StartPipeline_NoAdd ==
    /\ mainpc = "start"
    /\ ~cfg.Version
    /\ getHasher(cfg.HashType).err = NoErr
    /\ wpc' = [w \in Workers |-> "recv"]
    /\ wg' = 0
    /\ ppc' = "walk"
    /\ cpc' = "wait"
    /\ mainpc' = "collect"
    /\ UNCHANGED <<cfg, impl, tree, handles, fs, exitCode, walkPos, wjob, wres,
                   jobsClosed, resultsClosed, output, errs, stdout, stderr, outFile,
                   jobsSent, received>>

\* The channels are made, NumWorkers workers are started (wg.Add(1) each; none
\* when NumWorkers is 0 or less), then the walker and the closer goroutines;
\* main goes on to processResults.
StartPipeline ==
    /\ mainpc = "start"
    /\ ~cfg.Version
    /\ getHasher(cfg.HashType).err = NoErr
    /\ wpc' = [w \in Workers |-> "recv"]
    /\ wg' = Cardinality(Workers)
    /\ ppc' = "walk"
    /\ cpc' = "wait"
    /\ mainpc' = "collect"
    /\ UNCHANGED <<cfg, impl, tree, handles, fs, exitCode, walkPos, wjob, wres,
                   jobsClosed, resultsClosed, output, errs, stdout, stderr, outFile,
                   jobsSent, received>>

(***************************************************************************)
(* processResults: the body of the loop for one received Result.           *)
(* renameOK is the outcome of os.Rename, should it be called.              *)
(***************************************************************************)
\* NewPath without filepath.Dir: a name in the working directory.
NewPath_NoDir(result) == Join(0, result.Hash, Ext(result.FilePath))

NewPath(result) == Join(Dir(result.FilePath), result.Hash, Ext(result.FilePath))

\* ProcessResult with os.Rename called whether or not the new path exists: the
\* rename replaces the file that is there.
ProcessResult_NoStat(result, renameOK) ==
    IF result.Error # NoErr
    THEN /\ errs' = Append(errs, <<"error processing file", result.FilePath, result.Error>>)
         /\ UNCHANGED <<output, fs, stdout>>
    ELSE /\ output' = [p \in DOMAIN output \cup {result.FilePath} |->
                          IF p = result.FilePath THEN result.Hash ELSE output[p]]
         /\ IF cfg.Rename
            THEN IF renameOK /\ result.FilePath \in DOMAIN fs
                 THEN /\ fs' = [p \in (DOMAIN fs \ {result.FilePath})
                                        \cup {NewPath(result)} |->
                                  IF p = NewPath(result)
                                  THEN fs[result.FilePath] ELSE fs[p]]
                      /\ errs' = errs
                 ELSE /\ errs' = Append(errs, <<"error renaming file",
                                                result.FilePath, "rename">>)
                      /\ fs' = fs
            ELSE UNCHANGED <<fs, errs>>
         /\ stdout' = IF cfg.Display /\ cfg.OutFile = ""
                      THEN Append(stdout, <<result.FilePath, result.Hash>>)
                      ELSE stdout

ProcessResult(result, renameOK) ==
    IF result.Error # NoErr
    THEN /\ errs' = Append(errs, <<"error processing file", result.FilePath, result.Error>>)
         /\ UNCHANGED <<output, fs, stdout>>
    ELSE /\ output' = [p \in DOMAIN output \cup {result.FilePath} |->
                          IF p = result.FilePath THEN result.Hash ELSE output[p]]
         /\ IF cfg.Rename /\ NewPath(result) \in DOMAIN fs
            THEN /\ errs' = Append(errs, <<"could not rename", result.FilePath,
                                           "file already exists">>)
                 /\ UNCHANGED <<fs, stdout>>
            ELSE /\ IF cfg.Rename
                    THEN IF renameOK /\ result.FilePath \in DOMAIN fs
                         THEN /\ fs' = [p \in (DOMAIN fs \ {result.FilePath})
                                                \cup {NewPath(result)} |->
                                          IF p = NewPath(result)
                                          THEN fs[result.FilePath] ELSE fs[p]]
                              /\ errs' = errs
                         ELSE /\ errs' = Append(errs, <<"error renaming file",
                                                        result.FilePath, "rename">>)
                              /\ fs' = fs
                    ELSE UNCHANGED <<fs, errs>>
                 /\ stdout' = IF cfg.Display /\ cfg.OutFile = ""
                              THEN Append(stdout, <<result.FilePath, result.Hash>>)
                              ELSE stdout

\* The outcomes of os.Rename the environment can give for this Result.
RenameOutcomes(result) ==
    IF cfg.Rename /\ result.Error = NoErr /\ NewPath(result) \notin DOMAIN fs
    THEN BOOLEAN ELSE {TRUE}

Receive(result, from) ==
    /\ received' = Append(received, [res |-> result, from |-> from])
    /\ \E renameOK \in RenameOutcomes(result) : ProcessResult(result, renameOK)

(***************************************************************************)
(* The walker goroutine.                                                   *)
(***************************************************************************)
\* Callback with a traversal error printed and dropped instead of sent.
Callback_SwallowErr(i) ==
    IF WalkErr(tree[i]) # NoErr THEN "skip"
    ELSE IF tree[i].kind # "dir" /\ Match(cfg.FilePattern, tree[i]) THEN "sendJob"
    ELSE "skip"

\* Callback without the test of info.IsDir().
Callback_NoDirCheck(i) ==
    IF WalkErr(tree[i]) # NoErr THEN "sendErr"
    ELSE IF Match(cfg.FilePattern, tree[i]) THEN "sendJob"
    ELSE "skip"

\* What the callback does with entry i: send an error Result, send a job, or
\* nothing (a directory, or a file the pattern does not match).
Callback(i) ==
    IF WalkErr(tree[i]) # NoErr THEN "sendErr"
    ELSE IF tree[i].kind # "dir" /\ Match(cfg.FilePattern, tree[i]) THEN "sendJob"
    ELSE "skip"

\* The walk runs on from entry p until the callback blocks in a channel send
\* or filepath.Walk returns: the entry it stops at.
RECURSIVE WalkOn(_)
WalkOn(p) ==
    IF p > Len(tree) THEN p
    ELSE IF Callback(p) # "skip" THEN p
    ELSE WalkOn(NextVisit(tree, p + 1))

WalkPc(p) == IF p > Len(tree) THEN "close" ELSE Callback(p)

\* The walker goroutine starts and walks to its first send.
ProducerStart ==
    /\ Running
    /\ ppc = "walk"
    /\ walkPos' = WalkOn(walkPos)
    /\ ppc' = WalkPc(walkPos')
    /\ UNCHANGED <<cfg, impl, tree, handles, fs, mainpc, exitCode, wpc, wjob, wres, wg,
                   cpc, jobsClosed, resultsClosed, output, errs, stdout, stderr, outFile,
                   jobsSent, received>>

\* ProducerSendErr with the callback returning the error: filepath.Walk stops.
ProducerSendErr_Halt ==
    /\ Running
    /\ ppc = "sendErr"
    /\ mainpc = "collect"
    /\ ~resultsClosed
    /\ Receive(Result(Path(walkPos), NoHash, WalkErr(tree[walkPos])), Producer)
    /\ walkPos' = Len(tree) + 1
    /\ ppc' = "close"
    /\ UNCHANGED <<cfg, impl, tree, handles, mainpc, exitCode, wpc, wjob, wres, wg, cpc,
                   jobsClosed, resultsClosed, stderr, outFile, jobsSent>>

\* results <- Result{FilePath: path, Error: err}, received by processResults;
\* the callback returns nil and the walk goes on.
ProducerSendErr ==
    /\ Running
    /\ ppc = "sendErr"
    /\ mainpc = "collect"
    /\ ~resultsClosed
    /\ Receive(Result(Path(walkPos), NoHash, WalkErr(tree[walkPos])), Producer)
    /\ walkPos' = WalkOn(NextVisit(tree, walkPos + 1))
    /\ ppc' = WalkPc(walkPos')
    /\ UNCHANGED <<cfg, impl, tree, handles, mainpc, exitCode, wpc, wjob, wres, wg, cpc,
                   jobsClosed, resultsClosed, stderr, outFile, jobsSent>>

\* WorkerRecv for a receive that leaves the value in the channel: the send is
\* still pending after it.
WorkerRecv_NoConsume(w) ==
    /\ Running
    /\ ppc = "sendJob"
    /\ wpc[w] = "recv"
    /\ ~jobsClosed
    /\ wjob' = [wjob EXCEPT ![w] = Path(walkPos)]
    /\ wpc' = [wpc EXCEPT ![w] = "hash"]
    /\ jobsSent' = Append(jobsSent, [path |-> Path(walkPos), by |-> w])
    /\ UNCHANGED <<cfg, impl, tree, handles, fs, mainpc, exitCode, ppc, walkPos, wres, wg, cpc,
                   jobsClosed, resultsClosed, output, errs, stdout, stderr, outFile,
                   received>>

\* results <- Result{FilePath: path, Error: err} with results closed: the
\* runtime panics (send on closed channel) and the process ends, status 2.
ProducerPanic ==
    /\ Running
    /\ ppc = "sendErr"
    /\ resultsClosed
    /\ stderr' = Append(stderr, "panic: send on closed channel")
    /\ mainpc' = "exited"
    /\ exitCode' = 2
    /\ UNCHANGED <<cfg, impl, tree, handles, fs, ppc, walkPos, wpc, wjob, wres, wg, cpc,
                   jobsClosed, resultsClosed, output, errs, stdout, outFile, jobsSent,
                   received>>

\* jobs <- path, received by worker w at the head of its range loop; the
\* callback returns nil and the walk goes on.
WorkerRecv(w) ==
    /\ Running
    /\ ppc = "sendJob"
    /\ wpc[w] = "recv"
    /\ ~jobsClosed
    /\ wjob' = [wjob EXCEPT ![w] = Path(walkPos)]
    /\ wpc' = [wpc EXCEPT ![w] = "hash"]
    /\ jobsSent' = Append(jobsSent, [path |-> Path(walkPos), by |-> w])
    /\ walkPos' = WalkOn(NextVisit(tree, walkPos + 1))
    /\ ppc' = WalkPc(walkPos')
    /\ UNCHANGED <<cfg, impl, tree, handles, fs, mainpc, exitCode, wres, wg, cpc,
                   jobsClosed, resultsClosed, output, errs, stdout, stderr, outFile,
                   received>>

\* ProducerClose without the close(jobs).
ProducerClose_NoClose ==
    /\ Running
    /\ ppc = "close"
    /\ ppc' = "done"
    /\ UNCHANGED <<cfg, impl, tree, handles, fs, mainpc, exitCode, walkPos, wpc, wjob, wres, wg, cpc, jobsClosed, resultsClosed, output, errs, stdout, stderr,
                   outFile, jobsSent, received>>

\* filepath.Walk has returned (nil: the callback never returns an error);
\* close(jobs).
ProducerClose ==
    /\ Running
    /\ ppc = "close"
    /\ jobsClosed' = TRUE
    /\ ppc' = "done"
    /\ UNCHANGED <<cfg, impl, tree, handles, fs, mainpc, exitCode, walkPos, wpc, wjob, wres, wg, cpc, resultsClosed, output, errs, stdout, stderr, outFile,
                   jobsSent, received>>

(***************************************************************************)
(* worker and hashFile.                                                    *)
(***************************************************************************)
\* The error hashFile returns when os.Open fails: main.go returns it as it
\* is, the pipeline package wraps it.
OpenError ==
    IF impl = "pipeline" THEN "could not open file: open" ELSE "open"

\* The error hashFile returns after the deferred file.Close(): main.go drops
\* the error of Close; the pipeline package returns it when the hash had none.
ReturnedError(hashErr, closeErr) ==
    IF impl = "pipeline" /\ hashErr = NoErr THEN closeErr ELSE hashErr

CloseError(file) == IF file.fault = "close" THEN "close" ELSE NoErr

\* hashFile with one hash object shared by the workers: the sum also covers
\* what another worker has fed it.
hashFile_SharedHasher(filePath) ==
    IF filePath \in DOMAIN fs /\ fs[filePath].fault # "open"
    THEN LET file  == fs[filePath]
             other == { w \in Workers : wpc[w] = "send" /\ wres[w].Error = NoErr }
             fed   == IF other = {} THEN file
                      ELSE [file EXCEPT !.content = "mixed"]
             h     == hasher(HasherFn, fed)
         IN  [hash |-> h.hash, err |-> ReturnedError(h.err, CloseError(file))]
    ELSE [hash |-> NoHash, err |-> OpenError]

\* hashFile(filePath, hasher): os.Open, the hash of the open file, the
\* deferred Close.
hashFile(filePath) ==
    IF filePath \in DOMAIN fs /\ fs[filePath].fault # "open"
    THEN LET file == fs[filePath]
             h    == hasher(HasherFn, file)
         IN  [hash |-> h.hash, err |-> ReturnedError(h.err, CloseError(file))]
    ELSE [hash |-> NoHash, err |-> OpenError]

\* WorkerHash with the goroutine returning on a failed hashFile, no Result sent.
WorkerHash_DieOnError(w) ==
    /\ Running
    /\ wpc[w] = "hash"
    /\ LET r == hashFile(wjob[w])
       IN  IF r.err # NoErr
           THEN /\ wpc' = [wpc EXCEPT ![w] = "done"]
                /\ wg' = wg - 1
                /\ wres' = wres
           ELSE /\ wres' = [wres EXCEPT ![w] = Result(wjob[w], r.hash, r.err)]
                /\ wpc' = [wpc EXCEPT ![w] = "send"]
                /\ wg' = wg
    /\ UNCHANGED <<cfg, impl, tree, handles, fs, mainpc, exitCode, ppc, walkPos, wjob, cpc, jobsClosed, resultsClosed, output, errs, stdout, stderr,
                   outFile, jobsSent, received>>

\* The body of the worker's loop up to its send: hashFile and the Result.
WorkerHash(w) ==
    /\ Running
    /\ wpc[w] = "hash"
    /\ LET r == hashFile(wjob[w])
       IN  wres' = [wres EXCEPT ![w] = Result(wjob[w], r.hash, r.err)]
    /\ wpc' = [wpc EXCEPT ![w] = "send"]
    /\ UNCHANGED <<cfg, impl, tree, handles, fs, mainpc, exitCode, ppc, walkPos, wjob, wg, cpc, jobsClosed, resultsClosed, output, errs, stdout, stderr,
                   outFile, jobsSent, received>>

\* hashFile step by step.  os.Open: the worker holds the open file, or has
\* the error of Open for its Result.
WorkerOpen(w) ==
    /\ Running
    /\ wpc[w] = "hash"
    /\ IF wjob[w] \in DOMAIN fs /\ fs[wjob[w]].fault # "open"
       THEN /\ handles' = handles \cup {[by |-> w, path |-> wjob[w], file |-> fs[wjob[w]]]}
            /\ wpc' = [wpc EXCEPT ![w] = "copy"]
            /\ wres' = wres
       ELSE /\ wres' = [wres EXCEPT ![w] = Result(wjob[w], NoHash, OpenError)]
            /\ wpc' = [wpc EXCEPT ![w] = "send"]
            /\ handles' = handles
    /\ UNCHANGED <<cfg, impl, tree, fs, mainpc, exitCode, ppc, walkPos, wjob, wg, cpc,
                   jobsClosed, resultsClosed, output, errs, stdout, stderr, outFile,
                   jobsSent, received>>

\* The file worker w has open for its Job.
HandleOf(w) == CHOOSE h \in handles : h.by = w /\ h.path = wjob[w]

\* WorkerCopy with file.Close() called after a successful copy only, not
\* deferred.
WorkerCopy_NoDefer(w) ==
    /\ Running
    /\ wpc[w] = "copy"
    /\ LET file == HandleOf(w).file
           h    == hasher(HasherFn, file)
       IN  /\ wres' = [wres EXCEPT ![w] =
                         Result(wjob[w], h.hash, ReturnedError(h.err, CloseError(file)))]
           /\ handles' = IF h.err = NoErr THEN handles \ {HandleOf(w)} ELSE handles
    /\ wpc' = [wpc EXCEPT ![w] = "send"]
    /\ UNCHANGED <<cfg, impl, tree, fs, mainpc, exitCode, ppc, walkPos, wjob, wg, cpc,
                   jobsClosed, resultsClosed, output, errs, stdout, stderr, outFile,
                   jobsSent, received>>

\* hasher(file): the copy of the open file into the hash; then the deferred
\* file.Close() and the return of hashFile, with the worker's Result.
WorkerCopy(w) ==
    /\ Running
    /\ wpc[w] = "copy"
    /\ LET file == HandleOf(w).file
           h    == hasher(HasherFn, file)
       IN  wres' = [wres EXCEPT ![w] =
                      Result(wjob[w], h.hash, ReturnedError(h.err, CloseError(file)))]
    /\ handles' = handles \ {HandleOf(w)}
    /\ wpc' = [wpc EXCEPT ![w] = "send"]
    /\ UNCHANGED <<cfg, impl, tree, fs, mainpc, exitCode, ppc, walkPos, wjob, wg, cpc,
                   jobsClosed, resultsClosed, output, errs, stdout, stderr, outFile,
                   jobsSent, received>>

\* WorkerSend for a send that does not wait for the collector: the Result is
\* dropped when it is not taken at once.
WorkerSend_NonBlocking(w) ==
    /\ Running
    /\ wpc[w] = "send"
    /\ wpc' = [wpc EXCEPT ![w] = "recv"]
    /\ wjob' = [wjob EXCEPT ![w] = NoPath]
    /\ wres' = [wres EXCEPT ![w] = NoResult]
    /\ UNCHANGED <<cfg, impl, tree, handles, fs, mainpc, exitCode, ppc, walkPos, wg, cpc,
                   jobsClosed, resultsClosed, output, errs, stdout, stderr, outFile,
                   jobsSent, received>>

\* results <- Result{...}, received by processResults; the worker loops.
WorkerSend(w) ==
    /\ Running
    /\ wpc[w] = "send"
    /\ mainpc = "collect"
    /\ ~resultsClosed
    /\ Receive(wres[w], w)
    /\ wpc' = [wpc EXCEPT ![w] = "recv"]
    /\ wjob' = [wjob EXCEPT ![w] = NoPath]
    /\ wres' = [wres EXCEPT ![w] = NoResult]
    /\ UNCHANGED <<cfg, impl, tree, handles, mainpc, exitCode, ppc, walkPos, wg, cpc,
                   jobsClosed, resultsClosed, stderr, outFile, jobsSent>>

\* WorkerExit for a receive that does not wait for close(jobs).
WorkerExit_NoClosedCheck(w) ==
    /\ Running
    /\ wpc[w] = "recv"
    /\ wpc' = [wpc EXCEPT ![w] = "done"]
    /\ wg' = wg - 1
    /\ UNCHANGED <<cfg, impl, tree, handles, fs, mainpc, exitCode, ppc, walkPos, wjob, wres, cpc, jobsClosed, resultsClosed, output, errs, stdout, stderr,
                   outFile, jobsSent, received>>

\* The range over jobs ends (jobs is closed and, being unbuffered, empty);
\* the deferred wg.Done() runs.
WorkerExit(w) ==
    /\ Running
    /\ wpc[w] = "recv"
    /\ jobsClosed
    /\ wpc' = [wpc EXCEPT ![w] = "done"]
    /\ wg' = wg - 1
    /\ UNCHANGED <<cfg, impl, tree, handles, fs, mainpc, exitCode, ppc, walkPos, wjob, wres, cpc, jobsClosed, resultsClosed, output, errs, stdout, stderr,
                   outFile, jobsSent, received>>

\* CloserClose without the wg.Wait().
CloserClose_NoWait ==
    /\ Running
    /\ cpc = "wait"
    /\ resultsClosed' = TRUE
    /\ cpc' = "done"
    /\ UNCHANGED <<cfg, impl, tree, handles, fs, mainpc, exitCode, ppc, walkPos, wpc, wjob,
                   wres, wg, jobsClosed, output, errs, stdout, stderr, outFile,
                   jobsSent, received>>

(***************************************************************************)
(* The closer goroutine: wg.Wait(); close(results).                        *)
(***************************************************************************)
CloserClose ==
    /\ Running
    /\ cpc = "wait"
    /\ wg = 0
    /\ resultsClosed' = TRUE
    /\ cpc' = "done"
    /\ UNCHANGED <<cfg, impl, tree, handles, fs, mainpc, exitCode, ppc, walkPos, wpc, wjob,
                   wres, wg, jobsClosed, output, errs, stdout, stderr, outFile,
                   jobsSent, received>>

(***************************************************************************)
(* main, after the pipeline.                                               *)
(***************************************************************************)
\* CollectorDone for a loop that ends with the job stream, not the result
\* stream.
CollectorDone_OnJobsClosed ==
    /\ mainpc = "collect"
    /\ jobsClosed
    /\ mainpc' = "report"
    /\ UNCHANGED <<cfg, impl, tree, handles, fs, exitCode, ppc, walkPos, wpc, wjob, wres,
                   wg, cpc, jobsClosed, resultsClosed, output, errs, stdout, stderr,
                   outFile, jobsSent, received>>

\* The range over results ends; processResults returns output and errs.
CollectorDone ==
    /\ mainpc = "collect"
    /\ resultsClosed
    /\ mainpc' = "report"
    /\ UNCHANGED <<cfg, impl, tree, handles, fs, exitCode, ppc, walkPos, wpc, wjob, wres,
                   wg, cpc, jobsClosed, resultsClosed, output, errs, stdout, stderr,
                   outFile, jobsSent, received>>

\* The exit status of main returning.
ExitStatusOfReturn == 0

\* writeResultsToFile if an output file is set (createOK: os.Create succeeds),
\* the error summary, and the return of main.
MainFinish ==
    /\ mainpc = "report"
    /\ \E createOK \in (IF cfg.OutFile # "" THEN BOOLEAN ELSE {TRUE}) :
          LET wrote     == cfg.OutFile # "" /\ createOK
              createErr == IF cfg.OutFile # "" /\ ~createOK
                           THEN <<"Error writing output file">> ELSE << >>
              summary   == IF Len(errs) > 0 THEN <<"Errors encountered:">> \o errs
                           ELSE << >>
          IN  /\ outFile' = IF wrote THEN << { <<p, output[p]>> : p \in DOMAIN output } >>
                            ELSE outFile
              /\ stderr' = stderr \o createErr \o summary
    /\ mainpc' = "exited"
    /\ exitCode' = ExitStatusOfReturn
    /\ UNCHANGED <<cfg, impl, tree, handles, fs, ppc, walkPos, wpc, wjob, wres, wg, cpc,
                   jobsClosed, resultsClosed, output, errs, stdout, jobsSent, received>>

Next ==
    \/ MainVersion
    \/ MainBadHash
    \/ StartPipeline
    \/ ProducerStart
    \/ ProducerSendErr
    \/ ProducerClose
    \/ \E w \in Workers : WorkerRecv(w)
    \/ \E w \in Workers : WorkerHash(w)
    \/ \E w \in Workers : WorkerSend(w)
    \/ \E w \in Workers : WorkerExit(w)
    \/ CloserClose
    \/ CollectorDone
    \/ MainFinish

Spec == Init /\ [][Next]_vars

\* Runnable goroutines are scheduled: each step that stays enabled is taken.
Fairness ==
    /\ WF_vars(MainVersion) /\ WF_vars(MainBadHash) /\ WF_vars(StartPipeline)
    /\ WF_vars(ProducerStart) /\ WF_vars(ProducerSendErr) /\ WF_vars(ProducerClose)
    /\ \A w \in 1..MaxWorkers :
          /\ WF_vars(w \in Workers /\ WorkerRecv(w))
          /\ WF_vars(w \in Workers /\ WorkerHash(w))
          /\ WF_vars(w \in Workers /\ WorkerSend(w))
          /\ WF_vars(w \in Workers /\ WorkerExit(w))
    /\ WF_vars(CloserClose) /\ WF_vars(CollectorDone) /\ WF_vars(MainFinish)

FairSpec == FairInit /\ [][Next]_vars /\ Fairness

OptSpec == OptInit /\ [][Next]_vars

\* The run with the panic of a send on the closed result channel, which no
\* run with a worker comes to.
AnyNext ==
    \/ Next
    \/ ProducerPanic

AnySpec == AnyInit /\ [][AnyNext]_vars

\* The run with hashFile taken step by step: the open, then the copy and the
\* close, in place of the one step WorkerHash.
FineNext ==
    \/ MainVersion
    \/ MainBadHash
    \/ StartPipeline
    \/ ProducerStart
    \/ ProducerSendErr
    \/ ProducerClose
    \/ \E w \in Workers : WorkerRecv(w)
    \/ \E w \in Workers : WorkerOpen(w)
    \/ \E w \in Workers : WorkerCopy(w)
    \/ \E w \in Workers : WorkerSend(w)
    \/ \E w \in Workers : WorkerExit(w)
    \/ CloserClose
    \/ CollectorDone
    \/ MainFinish

FineSpec == FineInit /\ [][FineNext]_vars


(***************************************************************************)
(* Properties.                                                             *)
(***************************************************************************)
Entries == 1..Len(tree)

SentPaths == { jobsSent[k].path : k \in 1..Len(jobsSent) }

\* The received Results that carry the path p: all, those a worker sent, those
\* the walker sent.
ResultsFor(p) == { k \in 1..Len(received) : received[k].res.FilePath = p }
WorkerResultsFor(p) == { k \in ResultsFor(p) : received[k].from # Producer }
ProducerResultsFor(p) == { k \in ResultsFor(p) : received[k].from = Producer }

PipelineRuns == ~cfg.Version /\ getHasher(cfg.HashType).err = NoErr

\* Every directory above entry i could be read.
Accessible(i) == \A j \in 1..(i - 1) : Under(tree, j, i) => tree[j].kind = "dir"

\* The accessible non-directories whose name matches the pattern.
MatchingFiles ==
    { i \in Entries : Accessible(i) /\ tree[i].kind = "file"
                      /\ Match(cfg.FilePattern, tree[i]) }

\* The accessible entries the walk gets an error for.
FailedEntries == { i \in Entries : Accessible(i) /\ tree[i].kind \in {"dirErr", "lstatErr"} }

JobSent(i) == i \in Entries /\ Path(i) \in SentPaths
JobDelivered(i) == i \in Entries /\ Cardinality(WorkerResultsFor(Path(i))) = 1

\* C1: with NumWorkers >= 1, every Job sent on the job stream yields exactly
\* one Result carrying its path, received by the collector before the result
\* stream is closed: no path is sent twice, a worker's Result always answers a
\* sent Job, no Job ever has two Results, once results is closed every Job has
\* its one Result, and every sent Job's Result does arrive.
C1_EveryJobExactlyOneResult ==
    /\ [](cfg.NumWorkers >= 1 =>
            /\ \A k, l \in 1..Len(jobsSent) :
                  jobsSent[k].path = jobsSent[l].path => k = l
            /\ \A k \in 1..Len(received) :
                  received[k].from # Producer => received[k].res.FilePath \in SentPaths
            /\ \A p \in SentPaths : Cardinality(WorkerResultsFor(p)) <= 1
            /\ resultsClosed => \A p \in SentPaths : Cardinality(WorkerResultsFor(p)) = 1)
    /\ \A i \in 1..MaxEntries : JobSent(i) ~> JobDelivered(i)

C1_Witness ==
    /\ resultsClosed
    /\ cfg.NumWorkers = MaxWorkers
    /\ Len(jobsSent) >= 2
    /\ \E k, l \in 1..Len(jobsSent) : jobsSent[k].by # jobsSent[l].by
    /\ \A p \in SentPaths : Cardinality(WorkerResultsFor(p)) = 1

\* The Jobs worker w has received and the Results it has delivered.
JobsOf(w) == { k \in 1..Len(jobsSent) : jobsSent[k].by = w }
DeliveredBy(w) == { k \in 1..Len(received) : received[k].from = w }

\* C2: the result stream is closed only after every worker has terminated; a
\* worker has terminated only after close(jobs) and after it delivered the
\* Result of every Job it pulled; so results is never closed while a worker
\* holds a Job or an undelivered Result.
C2_CloseAfterWorkers ==
    /\ resultsClosed => \A w \in Workers : wpc[w] = "done"
    /\ \A w \in Workers :
          wpc[w] = "done" =>
             /\ jobsClosed
             /\ wres[w] = NoResult
             /\ Cardinality(JobsOf(w)) = Cardinality(DeliveredBy(w))
    /\ resultsClosed => \A w \in Workers : wpc[w] \notin {"hash", "send"}

C2_Witness ==
    /\ resultsClosed
    /\ cfg.NumWorkers = MaxWorkers
    /\ \A w \in Workers : wpc[w] = "done" /\ JobsOf(w) # {}

\* C3: with NumWorkers >= 1, every traversal error the walk meets gives
\* exactly one Result: it has no digest, it carries the error, the walker sent
\* it, its path is no Job, the walker is never left sending it on a closed
\* result stream, there is never a second one, and it has been received once
\* the walk is over (so before results is closed).
C3_TraversalErrorOneResult ==
    cfg.NumWorkers >= 1 =>
       /\ \A k \in 1..Len(received) :
             received[k].from = Producer =>
                /\ received[k].res.Hash = NoHash
                /\ received[k].res.Error # NoErr
                /\ received[k].res.FilePath \notin SentPaths
                /\ \E i \in FailedEntries :
                      /\ received[k].res.FilePath = Path(i)
                      /\ received[k].res.Error = WalkErr(tree[i])
       /\ ~(ppc = "sendErr" /\ resultsClosed)
       /\ \A i \in FailedEntries :
             /\ Cardinality(ResultsFor(Path(i))) <= 1
             /\ (jobsClosed \/ resultsClosed \/ (ppc # "none" /\ walkPos > i))
                   => Cardinality(ProducerResultsFor(Path(i))) = 1

C3_Witness ==
    /\ resultsClosed
    /\ cfg.NumWorkers = MaxWorkers
    /\ Cardinality(FailedEntries) >= 2
    /\ \A i \in FailedEntries : Cardinality(ProducerResultsFor(Path(i))) = 1

\* C4: every Result received from the result stream has exactly one of digest
\* and error: not both, not neither.
C4_DigestXorError ==
    \A k \in 1..Len(received) :
       (received[k].res.Hash # NoHash) # (received[k].res.Error # NoErr)

\* C5: with NumWorkers >= 1 and fair scheduling the run terminates: once the
\* pipeline is started, the job stream gets closed, every worker exits, the
\* result stream gets closed and processResults returns; every run exits.
C5_Terminates ==
    /\ (mainpc = "collect" /\ cfg.NumWorkers >= 1)
          ~> (/\ jobsClosed
              /\ \A w \in Workers : wpc[w] = "done"
              /\ resultsClosed
              /\ mainpc = "report")
    /\ <>(mainpc = "exited")

C5_Witness ==
    /\ mainpc = "report"
    /\ cfg.NumWorkers = MaxWorkers
    /\ Len(jobsSent) >= 1
    /\ \E k \in 1..Len(received) : received[k].from = Producer


\* What hashing entry i on its own gives: the reference the runs are compared
\* with.  It reads the tree only, not the worker count nor the schedule.
RefResult(i) ==
    IF tree[i].fault = "open" THEN [hash |-> NoHash, err |-> OpenError]
    ELSE LET h == hasher(HasherFn, tree[i])
         IN  [hash |-> h.hash, err |-> ReturnedError(h.err, CloseError(tree[i]))]

ExpectedOutput ==
    [p \in { Path(i) : i \in { j \in MatchingFiles : RefResult(j).err = NoErr } } |->
        LET i == CHOOSE j \in MatchingFiles : Path(j) = p
        IN  Digest(HasherFn, tree[i].content)]

\* C6: for a tree, a pattern and an algorithm (rename off), the path-to-digest
\* mapping processResults returns is one and the same for every worker count
\* >= 1 and every interleaving: it is the mapping of each matching file that
\* hashes to the digest of its content.
C6_OutputIndependentOfSchedule ==
    (mainpc \in {"report", "exited"} /\ PipelineRuns /\ ~cfg.Rename /\ cfg.NumWorkers >= 1)
       => output = ExpectedOutput

\* Two Results arrive in the opposite order of their Jobs.
C6_Witness ==
    /\ mainpc = "report"
    /\ cfg.NumWorkers = MaxWorkers
    /\ Cardinality(DOMAIN output) >= 2
    /\ \E k, l \in 1..Len(received), a, b \in 1..Len(jobsSent) :
          /\ k < l /\ a < b
          /\ received[k].res.FilePath = jobsSent[b].path
          /\ received[l].res.FilePath = jobsSent[a].path

\* os.Open or the read of the file at path p fails.
OpenOrReadFails(p) == p \notin DOMAIN fs \/ fs[p].fault \in {"open", "read"}

\* C7: an open or read failure stays with its file.  The worker that hit it
\* goes on to send an error Result (no digest) for that path; a worker that has
\* sent a Result is back at the head of its loop; a worker ends only at the
\* head of its loop with the job stream closed; and once the result stream is
\* closed every matching file has its Result, an error for the files that fail
\* to open or read and the digest of the content for the files that do not
\* fail.
C7_FailureIsolated ==
    /\ [][\A w \in Workers :
            /\ (wpc[w] = "hash" /\ OpenOrReadFails(wjob[w]) /\ wpc'[w] # "hash")
                  => /\ wpc'[w] = "send"
                     /\ wres'[w].FilePath = wjob[w]
                     /\ wres'[w].Hash = NoHash
                     /\ wres'[w].Error # NoErr
            /\ (wpc[w] = "send" /\ wpc'[w] # "send")
                  => /\ wpc'[w] = "recv"
                     /\ received' = Append(received, [res |-> wres[w], from |-> w])
            /\ (wpc[w] # "done" /\ wpc'[w] = "done")
                  => (wpc[w] = "recv" /\ jobsClosed)]_vars
    /\ [](resultsClosed =>
            \A i \in MatchingFiles :
               \E k \in 1..Len(received) :
                  /\ received[k].res.FilePath = Path(i)
                  /\ tree[i].fault \in {"open", "read"}
                        => (received[k].res.Hash = NoHash /\ received[k].res.Error # NoErr)
                  /\ tree[i].fault = "none"
                        => /\ received[k].res.Hash = Digest(HasherFn, tree[i].content)
                           /\ received[k].res.Error = NoErr)

\* A worker that delivered an error Result has delivered a digest after it.
C7_Witness ==
    /\ resultsClosed
    /\ \E w \in Workers, k, l \in 1..Len(received) :
          /\ k < l
          /\ received[k].from = w /\ received[k].res.Error # NoErr
          /\ received[l].from = w /\ received[l].res.Error = NoErr

\* C8: a traversal error does not stop the walk.  Only matching accessible
\* files become Jobs, every such file the walk has passed is a Job (also the
\* ones after a failed entry), and the job stream is closed only when the walk
\* is over and all of them have been sent.
C8_WalkGoesOnAfterError ==
    /\ SentPaths \subseteq { Path(i) : i \in MatchingFiles }
    /\ ppc # "none" => \A i \in MatchingFiles : i < walkPos => Path(i) \in SentPaths
    /\ jobsClosed =>
          /\ ppc = "done"
          /\ walkPos > Len(tree)
          /\ SentPaths = { Path(i) : i \in MatchingFiles }

\* A Job was sent for a file that comes after a failed entry.
C8_Witness ==
    /\ jobsClosed
    /\ \E i \in FailedEntries, j \in MatchingFiles :
          /\ i < j
          /\ Cardinality(ProducerResultsFor(Path(i))) = 1
          /\ Path(j) \in SentPaths

\* C9: with an unsupported hash type (and no -version) the run fails before
\* the pipeline: no goroutine is started, no entry is visited, there is no Job
\* and no Result, and the exit status is 1.  No other error aborts the run:
\* the exit status is 1 only then, and a run that started the pipeline exits
\* only with both streams closed.
C9_UnsupportedHashAborts ==
    /\ (~cfg.Version /\ getHasher(cfg.HashType).err # NoErr) =>
          /\ mainpc \in {"start", "exited"}
          /\ \A w \in Workers : wpc[w] = "none"
          /\ ppc = "none" /\ cpc = "none" /\ wg = 0
          /\ walkPos = 1
          /\ jobsSent = << >> /\ received = << >>
          /\ mainpc = "exited" => exitCode = 1
    /\ exitCode \notin {-1, 0} =>
          (exitCode = 1 /\ ~cfg.Version /\ getHasher(cfg.HashType).err # NoErr)
    /\ (mainpc = "exited" /\ PipelineRuns) => (jobsClosed /\ resultsClosed)

C9_Witness ==
    /\ mainpc = "exited"
    /\ exitCode = 1
    /\ Len(tree) = MaxEntries
    /\ cfg.NumWorkers = MaxWorkers

\* C10: the exit status of a finished run tells whether a failure occurred: it
\* is non-zero when a Result carried an error or a rename failed, zero when
\* none did; the digests are output in both cases.
C10_ExitStatusReflectsFailure ==
    (mainpc = "exited" /\ PipelineRuns) =>
       /\ (exitCode # 0) <=> (Len(errs) > 0)
       /\ (cfg.Display /\ cfg.OutFile = "") =>
             \A p \in DOMAIN output : \E k \in 1..Len(stdout) : stdout[k] = <<p, output[p]>>

\* The result stream is closed and nothing is left to come through it: the
\* walker is done, no worker holds a Job or a Result.
Drained ==
    /\ resultsClosed
    /\ ppc = "done"
    /\ \A w \in Workers : wpc[w] = "done" /\ wjob[w] = NoPath /\ wres[w] = NoResult

\* C11: processResults returns, the output file is written and the error
\* summary is printed only with the result stream closed and drained; from
\* its return on, the mapping and the error list do not change, and the file
\* written holds the whole mapping.
C11_ExposedAfterDrain ==
    /\ [][/\ (mainpc = "collect" /\ mainpc' # "collect") => (Drained /\ mainpc' = "report")
          /\ outFile' # outFile => (Drained /\ mainpc = "report")
          /\ (PipelineRuns /\ stderr' # stderr) => (Drained /\ mainpc = "report")
          /\ mainpc \in {"report", "exited"} => (output' = output /\ errs' = errs)]_vars
    /\ [](mainpc \in {"report", "exited"} /\ PipelineRuns => Drained)
    /\ [](outFile # << >> =>
            outFile[1] = { <<p, output[p]>> : p \in DOMAIN output })

\* A run that wrote a mapping to the output file and printed an error summary.
C11_Witness ==
    /\ mainpc = "exited"
    /\ cfg.NumWorkers = MaxWorkers
    /\ outFile # << >>
    /\ Cardinality(DOMAIN output) >= 1
    /\ Len(errs) >= 1
    /\ Len(stderr) >= 2

\* The files under the root when the run starts.
InitialFs ==
    [p \in { Path(i) : i \in { k \in Entries : tree[k].kind = "file" } } |->
        LET i == CHOOSE k \in Entries : Path(k) = p IN tree[i]]

\* The files of a file system without their paths: each file with the number
\* of paths that hold it.
Contents(f) ==
    [r \in { f[p] : p \in DOMAIN f } |-> Cardinality({ p \in DOMAIN f : f[p] = r })]

\* The Result received in this step.
LastResult == received[Len(received)].res

EntryAt(p) == CHOOSE i \in Entries : Path(i) = p

\* C13: the Jobs are the files the walk reaches whose name matches the
\* pattern.  Every Job is the path of one entry, a non-directory that is
\* visited and matches; no directory is a Job; with the job stream closed every
\* visited matching file has been a Job; a worker's Result is for such a file;
\* and a file that does not match has no Result at all.
C13_JobsAreMatchingFiles ==
    /\ \A k \in 1..Len(jobsSent) :
          /\ \E i \in Entries : Path(i) = jobsSent[k].path
          /\ LET e == tree[EntryAt(jobsSent[k].path)]
             IN  /\ e.kind = "file"
                 /\ ~IsDirKind(e)
                 /\ Visited(tree, EntryAt(jobsSent[k].path))
                 /\ Match(cfg.FilePattern, e)
    /\ jobsClosed =>
          \A i \in Entries :
             (tree[i].kind = "file" /\ Visited(tree, i) /\ Match(cfg.FilePattern, tree[i]))
                => Cardinality({ k \in 1..Len(jobsSent) : jobsSent[k].path = Path(i) }) = 1
    /\ \A k \in 1..Len(received) :
          received[k].from # Producer =>
             /\ \E i \in Entries : Path(i) = received[k].res.FilePath
             /\ tree[EntryAt(received[k].res.FilePath)].kind = "file"
             /\ Match(cfg.FilePattern, tree[EntryAt(received[k].res.FilePath)])
    /\ \A i \in Entries :
          (tree[i].kind = "file" /\ ~Match(cfg.FilePattern, tree[i]))
             => (ResultsFor(Path(i)) = {} /\ Path(i) \notin DOMAIN output)

\* Pattern *.jpg over a directory with a .jpg and a .png: one Job, one Result.
C13_Witness ==
    /\ resultsClosed
    /\ cfg.FilePattern = "*.jpg"
    /\ tree[1].kind = "dir"
    /\ \E i, j \in Entries :
          /\ tree[i].kind = "file" /\ tree[i].ext = ".jpg"
          /\ tree[j].kind = "file" /\ tree[j].ext = ".png"
          /\ Cardinality(ResultsFor(Path(i))) = 1
          /\ ResultsFor(Path(j)) = {}
    /\ Len(jobsSent) = 1
    /\ Len(received) = 1

\* No file the walk visits has a name the pattern matches (the glob "*"
\* matches every name, "*.jpg" the names that end in .jpg, "[" none).
NoFileMatches ==
    \A i \in Entries :
       (tree[i].kind = "file" /\ Visited(tree, i)) =>
          /\ cfg.FilePattern # "*"
          /\ ~(cfg.FilePattern = "*.jpg" /\ tree[i].ext = ".jpg")

\* C14 as stated: when no file matches the pattern there is no Result at all,
\* and the output mapping is empty.
C14_ZeroMatchZeroResults ==
    NoFileMatches => (received = << >> /\ DOMAIN output = {})

\* C14, amended: when no file matches the pattern no Job is sent, no worker
\* sends a Result, and the output mapping is empty; the Results there are come
\* from the walker, one for each traversal error, so that a walk without
\* errors gives zero Results; no digest line is printed.
C14_ZeroMatchNoJobResults ==
    NoFileMatches =>
       /\ jobsSent = << >>
       /\ \A k \in 1..Len(received) :
             /\ received[k].from = Producer
             /\ received[k].res.Hash = NoHash
             /\ received[k].res.Error \in {"lstat", "readdir"}
       /\ Len(received) <= Cardinality(FailedEntries)
       /\ resultsClosed => Len(received) = Cardinality(FailedEntries)
       /\ DOMAIN output = {}
       /\ PipelineRuns => stdout = << >>

\* No file matches *.jpg, and the one traversal error has given a Result.
C14_Witness ==
    /\ mainpc = "report"
    /\ NoFileMatches
    /\ cfg.FilePattern = "*.jpg"
    /\ \E i \in Entries : tree[i].kind = "file" /\ Visited(tree, i)
    /\ Len(received) = 1
    /\ DOMAIN output = {}

\* The Job of the k-th send is in the hands of its receiver, or answered by it.
HeldOrAnswered(k) ==
    LET w == jobsSent[k].by
        p == jobsSent[k].path
    IN  \/ (wjob[w] = p /\ wpc[w] \in {"hash", "send"})
        \/ \E l \in 1..Len(received) : received[l].from = w /\ received[l].res.FilePath = p

\* C15: with NumWorkers >= 1 every Job goes to one worker, once.  No path is
\* received twice, by the same or by another worker; no two workers hold the
\* same Job; a Result for a Job comes from the worker that received it; the
\* walker gets past a Job only by a worker receiving it, so when the job
\* stream is closed no send is pending and every matching file has its
\* receiver.
C15_JobToOneWorkerOnce ==
    cfg.NumWorkers >= 1 =>
       /\ \A k, l \in 1..Len(jobsSent) :
             jobsSent[k].path = jobsSent[l].path => k = l
       /\ \A k \in 1..Len(jobsSent) : jobsSent[k].by \in Workers /\ HeldOrAnswered(k)
       /\ \A v, w \in Workers :
             (v # w /\ wjob[v] # NoPath) => wjob[v] # wjob[w]
       /\ \A w \in Workers :
             wjob[w] # NoPath =>
                \E k \in 1..Len(jobsSent) : jobsSent[k].path = wjob[w] /\ jobsSent[k].by = w
       /\ \A l \in 1..Len(received) :
             received[l].from # Producer =>
                \E k \in 1..Len(jobsSent) :
                   /\ jobsSent[k].path = received[l].res.FilePath
                   /\ jobsSent[k].by = received[l].from
       /\ (ppc # "none" /\ ~jobsClosed) =>
             Len(jobsSent) = Cardinality({ i \in MatchingFiles : i < walkPos })
       /\ jobsClosed =>
             /\ ppc # "sendJob"
             /\ Len(jobsSent) = Cardinality(MatchingFiles)

\* The job stream is closed; one worker still holds a Job while another one
\* has delivered the Result of its own.
C15_Witness ==
    /\ jobsClosed
    /\ ~resultsClosed
    /\ cfg.NumWorkers = MaxWorkers
    /\ \E v, w \in Workers :
          /\ v # w
          /\ wpc[v] = "hash"
          /\ wpc[w] = "done"
          /\ \E l \in 1..Len(received) : received[l].from = w

\* The files worker w has open.
HandlesOf(w) == { h \in handles : h.by = w }

\* C16: a worker has a file open only between its open and the return of
\* hashFile: the step that ends the copy, with a digest or with a read
\* failure, releases the handle and leaves the worker at its send, so a worker
\* that emits a Result, waits for a Job or has ended holds none.  A handle
\* belongs to one worker and is on that worker's Job, no two handles are on
\* one path; the open handles are never more than NumWorkers, and none is
\* left once the result stream is closed.
C16_HandleReleasedBeforeEmit ==
    /\ [][\A w \in Workers :
            /\ (wpc[w] = "copy" /\ wpc'[w] # "copy")
                  => (wpc'[w] = "send" /\ HandlesOf(w)' = {} /\ HandlesOf(w) # {})
            /\ HandlesOf(w)' # HandlesOf(w)
                  => \/ (wpc[w] = "hash" /\ wpc'[w] = "copy")
                     \/ (wpc[w] = "copy" /\ wpc'[w] = "send")
            /\ received' # received => HandlesOf(received'[Len(received')].from) = {}]_vars
    /\ [](\A w \in Workers :
             /\ wpc[w] = "copy" <=> HandlesOf(w) # {}
             /\ Cardinality(HandlesOf(w)) <= 1
             /\ \A h \in HandlesOf(w) : h.path = wjob[w])
    /\ [](\A g, h \in handles :
             /\ h.by \in Workers
             /\ (g.by = h.by \/ g.path = h.path) => g = h)
    /\ [](Cardinality(handles) <= cfg.NumWorkers)
    /\ [](resultsClosed => handles = {})

\* A worker emits the Result of a read failure, its file closed, while the
\* other worker has its file open.
C16_Witness ==
    /\ cfg.NumWorkers = MaxWorkers
    /\ \E v, w \in Workers :
          /\ wpc[v] = "send" /\ wres[v].Error = "read" /\ HandlesOf(v) = {}
          /\ wpc[w] = "copy" /\ HandlesOf(w) # {}
    /\ Cardinality(handles) = 1

\* The worker Results received, as paths in the order of their receipt.
RECURSIVE JobResultPaths(_)
JobResultPaths(n) ==
    IF n = 0 THEN << >>
    ELSE IF received[n].from = Producer THEN JobResultPaths(n - 1)
    ELSE Append(JobResultPaths(n - 1), received[n].res.FilePath)

\* The Jobs pulled from the job stream whose Result the collector has not got.
Undelivered ==
    { k \in 1..Len(jobsSent) : WorkerResultsFor(jobsSent[k].path) = {} }

\* C17: a worker goes through a file in the order pull, open, hash, emit: its
\* steps are recv to hash (the pull), hash to copy (the open) or hash to send
\* (the open failed), copy to send (the hash), send to recv (the Result is
\* with the collector), and recv to done.  Only the step that hands a Result to
\* the collector takes a worker back to the job stream, so the pulled Jobs
\* without a delivered Result are at most NumWorkers, each in the hands of a
\* worker.  With one worker at most one file is in work, and the Results of
\* the Jobs are received in the order the walk discovered the files.
C17_WorkerStepsInOrder ==
    /\ [][\A w \in Workers :
            /\ wpc'[w] # wpc[w] =>
                  <<wpc[w], wpc'[w]>> \in
                     { <<"none", "recv">>, <<"recv", "hash">>, <<"hash", "copy">>,
                       <<"hash", "send">>, <<"copy", "send">>, <<"send", "recv">>,
                       <<"recv", "done">> }
            /\ (wpc[w] = "send" /\ wpc'[w] # "send")
                  => received' = Append(received, [res |-> wres[w], from |-> w])
            /\ (wpc[w] = "hash" /\ wpc'[w] = "send") => wres'[w].Error = OpenError
            /\ (wpc[w] # "recv" /\ wpc'[w] = "recv" /\ wpc[w] # "none")
                  => Len(received') = Len(received) + 1]_vars
    /\ [](Cardinality(Undelivered) <= cfg.NumWorkers)
    /\ [](\A k \in Undelivered :
             wjob[jobsSent[k].by] = jobsSent[k].path
                /\ wpc[jobsSent[k].by] \in {"hash", "copy", "send"})
    /\ [](cfg.NumWorkers = 1 =>
             /\ Cardinality(Undelivered) <= 1
             /\ Cardinality(handles) <= 1
             /\ JobResultPaths(Len(received)) =
                   [k \in 1..(Len(jobsSent) - Cardinality(Undelivered)) |-> jobsSent[k].path]
             /\ \A k \in 1..Len(jobsSent) :
                   jobsSent[k].path = Path(CHOOSE i \in MatchingFiles :
                                              Cardinality({ j \in MatchingFiles : j <= i }) = k))

\* One worker has been through the files one after the other, one that fails
\* and one that hashes.
C17_Witness ==
    /\ cfg.NumWorkers = 1
    /\ resultsClosed
    /\ Len(jobsSent) >= 2
    /\ Len(JobResultPaths(Len(received))) = Len(jobsSent)
    /\ \E k, l \in 1..Len(received) :
          received[k].res.Error # NoErr /\ received[l].res.Error = NoErr

\* The state of the pipeline: 0 Idle (no goroutine started), 1 discovering and
\* hashing, 2 draining (jobs closed, results open), 3 closed (results closed).
Phase ==
    IF resultsClosed THEN 3
    ELSE IF jobsClosed THEN 2
    ELSE IF ppc # "none" THEN 1
    ELSE 0

\* C18: the pipeline goes from each state to the next one only, never back
\* and never past one.  jobs is closed once, by the walker when its walk is
\* over; results is closed once, by the closer goroutine, with jobs closed and
\* every worker gone; neither goroutine acts again.  With jobs closed no Job
\* is sent, and with results closed no Job and no Result is produced and the
\* collector's mapping and error list stay as they are.
C18_LifecycleForward ==
    /\ [][Phase' = Phase \/ Phase' = Phase + 1]_vars
    /\ [][jobsClosed' # jobsClosed =>
            (~jobsClosed /\ ppc = "close" /\ ppc' = "done" /\ walkPos > Len(tree))]_vars
    /\ [][resultsClosed' # resultsClosed =>
            /\ ~resultsClosed /\ cpc = "wait" /\ cpc' = "done"
            /\ jobsClosed
            /\ \A w \in Workers : wpc[w] = "done"]_vars
    /\ [][(ppc = "done" => ppc' = "done") /\ (cpc = "done" => cpc' = "done")]_vars
    /\ [][jobsClosed => (jobsSent' = jobsSent /\ walkPos' = walkPos)]_vars
    /\ [][resultsClosed =>
            /\ jobsSent' = jobsSent /\ received' = received
            /\ wres' = wres /\ wjob' = wjob /\ wpc' = wpc
            /\ output' = output /\ errs' = errs]_vars
    /\ [](Phase = 0 <=> mainpc = "start" \/ (mainpc = "exited" /\ ~PipelineRuns))
    /\ [](Phase \in {1, 2} => mainpc = "collect")

\* A run that has been through the four states and has exited, with Jobs
\* answered by every worker.
C18_Witness ==
    /\ mainpc = "exited"
    /\ Phase = 3
    /\ cfg.NumWorkers = MaxWorkers
    /\ \A w \in Workers : DeliveredBy(w) # {}
    /\ cpc = "done" /\ ppc = "done"

\* C19: for every worker count, 0 and negative ones too, no goroutine is at a
\* send on a channel that is closed and no run ends by the panic of such a
\* send; and the walker is never at a job send that no worker is there to
\* receive.
C19_NoSendOnClosedAnyWorkerCount ==
    /\ ~(ppc = "sendErr" /\ resultsClosed)
    /\ \A w \in Workers : ~(wpc[w] = "send" /\ resultsClosed)
    /\ ~(ppc = "sendJob" /\ jobsClosed)
    /\ exitCode # 2
    /\ ppc = "sendJob" => \E w \in Workers : wpc[w] # "done"

\* The entries the walk has not called lstat for yet.
NotYetVisited ==
    { i \in Entries : Visited(tree, i) /\ (ppc \in {"none", "walk"} \/ i > walkPos) }

\* The files that have come to their place by a rename.
Renamed == DOMAIN fs \ DOMAIN InitialFs

DigestLines(k) ==
    { j \in 1..Len(stdout) :
         stdout[j] = <<received[k].res.FilePath, received[k].res.Hash>> }

\* C21: every received Result with a digest is in the output mapping under
\* its path, and with -display and no -out-file its line is printed exactly
\* once, whatever became of the other files and of its own rename; the keys
\* of the mapping are the paths of the Results without an error.
C21_DigestRecordedAndPrintedOnce ==
    /\ \A k \in 1..Len(received) :
          received[k].res.Hash # NoHash =>
             /\ received[k].res.FilePath \in DOMAIN output
             /\ output[received[k].res.FilePath] = received[k].res.Hash
             /\ (cfg.Display /\ cfg.OutFile = "") => Cardinality(DigestLines(k)) = 1
    /\ DOMAIN output =
          { received[k].res.FilePath :
               k \in { l \in 1..Len(received) : received[l].res.Error = NoErr } }

=============================================================================
